---- MODULE Spec2Model ----
(***************************************************************************)
(* A model of the moomoo.io WebSocket proxy.  The repository holds two     *)
(* servers: src/index.js (message queue, close-code remapping, close       *)
(* codes on failure) and src/unnamed/part_000 (per-proxy counters, token   *)
(* throttle, dial jitter, cleanup()).  Each is modelled as its own state   *)
(* machine over its own variables:                                         *)
(*   SpecPart   the connection pipeline of src/unnamed/part_000            *)
(*   SpecIndex  the connection pipeline of src/index.js                    *)
(*   SpecPool   the two round-robin selectors, called back to back         *)
(*   SpecOne    one connection of src/index.js over the whole space of     *)
(*              challenge responses, close codes and close reasons         *)
(* Names carry the suffix _p for part_000 where both files use the same    *)
(* name.  The sockets are those of the ws package: readyState is one of    *)
(* CONNECTING, OPEN, CLOSING, CLOSED; close() on an OPEN socket makes it   *)
(* CLOSING and the 'close' event follows later; close() on a CONNECTING    *)
(* socket aborts the handshake ('error', then 'close'); close() on a       *)
(* CLOSING or CLOSED socket does nothing; an event with no listener is     *)
(* lost; 'close' is emitted once per socket; a handshake that fails or is  *)
(* aborted emits 'error' and 'close' back to back, an error on an open     *)
(* socket emits 'error' and the 'close' follows later.                     *)
(***************************************************************************)
EXTENDS Integers, Sequences, FiniteSets, TLC

\* ------------------------------------------------------------- bounds
MaxProxies == 2      \* longest configured proxy list of a server
MaxPoolProxies == 3  \* longest configured proxy list in SpecPool
MaxPicks == 7        \* calls of each selector in SpecPool
MaxTicks == 2        \* clock ticks taken freely (more are taken while a sleeper waits)
TickMs == 200        \* milliseconds per clock tick
StartNow == 1000     \* Date.now() when the server starts
MaxMsgs == 3         \* messages the clients submit, all connections together
MaxNumber == 2       \* largest maxnumber of a challenge
NumDigests == 2      \* distinct hash values
MaxFails == 1        \* connections in which a send may throw

\* ------------------------------------------------- program constants
TOKEN_RATE_WINDOW_MS == 400
REASON_MAX == 123
ABNORMAL_CLOSURE == 1006
DIAL_JITTER_MIN == 120
DIAL_JITTER_MAX == 320

\* Connections: every per-connection variable is a function over Sessions.
\* SpecPart and SpecIndex run the connections of Relayed; SpecThrottle runs all
\* of Sessions through the token fetch.
Sessions == {"c1", "c2", "c3"}

Relayed == {"c1", "c2"}

undefined == "undefined"
null == "null"

\* ------------------------------------------------------ state, part_000
VARIABLES
    proxyList_p,     \* the configured endpoints, a sequence (JS index i is element i+1)
    proxyState,      \* [0..n-1 -> [active, lastTokenAt]]
    rrCursor,
    now,             \* Date.now()
    pc_p,            \* where each connection handler stands
    proxyIdx,        \* the connection's proxyIdx (-1: direct)
    clientSocket,    \* readyState of the client socket
    clientOn,        \* onClientMessage/onClientClose/onClientError attached
    upstream_p,      \* state of the upstream socket
    upstreamReady_p,
    keepAliveTimer,  \* the interval is armed
    wakeAt,          \* when the connection's pending sleep() ends
    released,        \* history: times the connection decremented its endpoint's active
    fetchGap,        \* history: per endpoint, ms between its two latest fetches (-1: fewer than two)
    closeSent_p,     \* history: the clientSocket.close() that closed the client: which call, what code
    dialFailed,      \* history: the upstream's handshake failed by itself
    did,             \* history: endpoints picked, fetches issued, upstreams dialled by the connection
    sendFailed,      \* history: a send of the connection has thrown
    fwdAfterFail,    \* history: a message was forwarded after a send in the other direction had thrown
    crashed          \* an exception left a handler uncaught

vars_p == <<proxyList_p, proxyState, rrCursor, now, pc_p, proxyIdx, clientSocket,
            clientOn, upstream_p, upstreamReady_p, keepAliveTimer, wakeAt,
            released, fetchGap, closeSent_p, dialFailed, did, sendFailed,
            fwdAfterFail, crashed>>

\* The histories the message handlers write.
sends_p == <<sendFailed, fwdAfterFail, crashed>>

\* ------------------------------------------------------ state, SpecPool
VARIABLES
    poolList,        \* the configured endpoints
    proxyIndex_pool, \* index.js proxyIndex
    rrCursor_pool,   \* part_000 rrCursor
    picks_i,         \* history: what getNextProxy returned, in call order
    picks_p          \* history: what pickProxyIndex returned, in call order

vars_pool == <<poolList, proxyIndex_pool, rrCursor_pool, picks_i, picks_p>>

\* ------------------------------------------------------ state, index.js
VARIABLES
    proxyList_i,       \* the configured endpoints
    proxyIndex,
    pc_i,              \* where each connection handler stands
    proxyUrl,          \* the connection's proxyUrl (nullProxy: direct)
    clientWs,          \* readyState of the client socket
    upstream_i,        \* state of the upstream socket
    upstreamReady_i,
    messageQueue,
    keepAliveInterval, \* the interval is armed
    submitted,         \* history: messages the client has sent; message k is the k-th
    early,             \* history: how many of them it sent while the session was Connecting
    upstreamSent,      \* history: the messages given to upstream.send, in call order
    closedConnecting,  \* history: the client closed while the session was Connecting
    closeSent,         \* history: the clientWs.close() that closed the client: which call, what code
    upstreamCode,      \* history: the code of the upstream's 'close' event (0: none yet)
    reasonStr,         \* history: the reason of the upstream's 'close' event
    reasonSent,        \* history: the reason that went out with closeSent
    resp,              \* SpecOne: what the /verify request of the connection ends with
    lastSolve          \* history (SpecOne): what generateToken resolved with, and its hashes

vars_i == <<proxyList_i, proxyIndex, pc_i, proxyUrl, clientWs, upstream_i, upstreamReady_i,
            messageQueue, keepAliveInterval, submitted, early, upstreamSent,
            closedConnecting, closeSent, upstreamCode, reasonStr, reasonSent,
            resp, lastSolve>>

vars == <<vars_p, vars_pool, vars_i>>

\* ------------------------------------------ the round-robin selectors

\* getNextProxy's null and the proxyUrl of a connection without a proxy.
nullProxy == 0

\* part_000 pickProxyIndex: the index returned, and the cursor it leaves.
pickProxyIndex_mut_idx(cursor, n) == IF n = 0 THEN -1 ELSE 0

pickProxyIndex_mut0_idx(cursor, n) == IF n = 0 THEN 0 ELSE cursor % n

pickProxyIndex_idx(cursor, n) == IF n = 0 THEN -1 ELSE cursor % n

pickProxyIndex_cursor(cursor, n) == IF n = 0 THEN cursor ELSE (cursor + 1) % n

\* index.js getNextProxy: the element returned (nullProxy: empty list), and proxyIndex after.
getNextProxy_proxy(list, index) ==
    IF Len(list) = 0 THEN nullProxy ELSE list[(index % Len(list)) + 1]

getNextProxy_index(list, index) == IF Len(list) = 0 THEN index ELSE index + 1

\* The endpoints a PROXIES variable of n entries configures.
Endpoint(i) == i

loadProxies(n) == [i \in 1..n |-> Endpoint(i)]

CallGetNextProxy ==
    /\ Len(picks_i) < MaxPicks
    /\ picks_i' = Append(picks_i, getNextProxy_proxy(poolList, proxyIndex_pool))
    /\ proxyIndex_pool' = getNextProxy_index(poolList, proxyIndex_pool)
    /\ UNCHANGED <<poolList, rrCursor_pool, picks_p>>

CallPickProxyIndex ==
    /\ Len(picks_p) < MaxPicks
    /\ LET idx == pickProxyIndex_idx(rrCursor_pool, Len(poolList))
       IN picks_p' = Append(picks_p, IF idx >= 0 THEN poolList[idx + 1] ELSE nullProxy)
    /\ rrCursor_pool' = pickProxyIndex_cursor(rrCursor_pool, Len(poolList))
    /\ UNCHANGED <<poolList, proxyIndex_pool, picks_i>>

\* ------------------------------------------------ sockets (ws package)

readyState(st) == IF st = "ABORTING" THEN "CLOSING" ELSE st

\* socket.close() called by the server: the socket's state after the call.
closeCall(st) ==
    CASE st = "OPEN" -> "CLOSING"
      [] st = "CONNECTING" -> "ABORTING"
      [] OTHER -> st

\* ------------------------------------------------------------ part_000

NoProxy == -1

ProxyIdxs == 0..Len(proxyList_p) - 1

hasState(idx) == idx >= 0 /\ idx \in DOMAIN proxyState

\* proxyState[idx].active++ / active--, guarded as in the source.
activeAdd(ps, idx, d) ==
    IF idx >= 0 /\ idx \in DOMAIN ps
    THEN [ps EXCEPT ![idx].active = @ + d]
    ELSE ps

\* generateToken's throttle: how long the caller has to sleep.
throttleUntil(ps, idx, t) == ps[idx].lastTokenAt + TOKEN_RATE_WINDOW_MS - t

\* proxyState[proxyIdx].lastTokenAt = Date.now(), and the fetch that follows it.
stampFetch(ps, idx, t) == [ps EXCEPT ![idx].lastTokenAt = t]

gapAfterFetch(ps, gaps, idx, t) ==
    IF ps[idx].lastTokenAt = 0 THEN gaps
    ELSE [gaps EXCEPT ![idx] = t - ps[idx].lastTokenAt]

\* clientSocket.close() takes no code in part_000: none goes out.
noCode == 0

\* clientSocket.close(): the socket after the call, and the call that closed it.
\* why names the call: "region", "token", "close" (upstream 'close').
closeClient_p(cw, cs, s, why) ==
    [ws |-> [cw EXCEPT ![s] = closeCall(@)],
     sent |-> IF cw[s] = "OPEN" THEN [cs EXCEPT ![s] = [why |-> why, code |-> noCode]]
              ELSE cs]

\* try { socket.send(msg); } catch (e) {}: what becomes of a send that throws.
trySend_mut(ok) == IF ok THEN "sent" ELSE "uncaught"

trySend(ok) == IF ok THEN "sent" ELSE "caught"

\* The clock.  It runs freely for MaxTicks ticks, and on while a sleeper waits.
Tick ==
    /\ \/ now < StartNow + MaxTicks * TickMs
       \/ \E s \in Sessions : pc_p[s] \in {"throttle", "jitter"} /\ wakeAt[s] > now
    /\ now' = now + TickMs
    /\ UNCHANGED <<proxyList_p, proxyState, rrCursor, pc_p, proxyIdx, clientSocket,
                   clientOn, upstream_p, upstreamReady_p, keepAliveTimer, wakeAt,
                   released, fetchGap, closeSent_p, dialFailed, did, sends_p>>

\* wss.on('connection') up to its first suspension: region check, proxy pick,
\* active++, and generateToken up to sleep(until) or fetch().
Connection_p(s, regionOk) ==
    /\ pc_p[s] = "idle"
    /\ IF ~regionOk
       THEN /\ clientSocket' = [clientSocket EXCEPT ![s] = closeCall("OPEN")]
            /\ closeSent_p' = [closeSent_p EXCEPT ![s] = [why |-> "region", code |-> noCode]]
            /\ pc_p' = [pc_p EXCEPT ![s] = "done"]
            /\ UNCHANGED <<rrCursor, proxyIdx, proxyState, wakeAt, fetchGap, did>>
       ELSE LET n == Len(proxyList_p)
                idx == pickProxyIndex_idx(rrCursor, n)
                acquired == activeAdd(proxyState, idx, 1)
            IN /\ rrCursor' = pickProxyIndex_cursor(rrCursor, n)
               /\ proxyIdx' = [proxyIdx EXCEPT ![s] = idx]
               /\ clientSocket' = [clientSocket EXCEPT ![s] = "OPEN"]
               /\ UNCHANGED closeSent_p
               /\ IF hasState(idx) /\ throttleUntil(acquired, idx, now) > 0
                  THEN /\ pc_p' = [pc_p EXCEPT ![s] = "throttle"]
                       /\ wakeAt' = [wakeAt EXCEPT ![s] = now + throttleUntil(acquired, idx, now)]
                       /\ proxyState' = acquired
                       /\ did' = [did EXCEPT ![s].picks = @ + 1]
                       /\ UNCHANGED fetchGap
                  ELSE /\ pc_p' = [pc_p EXCEPT ![s] = "fetch"]
                       /\ proxyState' = IF hasState(idx) THEN stampFetch(acquired, idx, now)
                                        ELSE acquired
                       /\ fetchGap' = IF hasState(idx)
                                      THEN gapAfterFetch(acquired, fetchGap, idx, now)
                                      ELSE fetchGap
                       /\ did' = [did EXCEPT ![s].picks = @ + 1, ![s].fetches = @ + 1]
                       /\ UNCHANGED wakeAt
    /\ UNCHANGED <<proxyList_p, now, clientOn, upstream_p, upstreamReady_p,
                   keepAliveTimer, released, dialFailed, sends_p>>

\* generateToken after sleep(until): stamp lastTokenAt and issue the fetch.
ThrottleWake(s) ==
    /\ pc_p[s] = "throttle"
    /\ now >= wakeAt[s]
    /\ proxyState' = stampFetch(proxyState, proxyIdx[s], now)
    /\ fetchGap' = gapAfterFetch(proxyState, fetchGap, proxyIdx[s], now)
    /\ pc_p' = [pc_p EXCEPT ![s] = "fetch"]
    /\ wakeAt' = [wakeAt EXCEPT ![s] = 0]
    /\ did' = [did EXCEPT ![s].fetches = @ + 1]
    /\ UNCHANGED <<proxyList_p, rrCursor, now, proxyIdx, clientSocket, clientOn,
                   upstream_p, upstreamReady_p, keepAliveTimer, released,
                   closeSent_p, dialFailed, sends_p>>

\* --------------------------------------------- the challenge and its token

Digests == 1..NumDigests

\* A salt is known by its row of the hash: i |-> sha256(salt + i).
Salts == [0..MaxNumber -> Digests]

sha256hex(salt, i) == salt[i]

\* The body of /verify parsed as JSON.  A field the body lacks reads undefined:
\* noChallenge, noSalt, noMaxnumber and undefined stand for it, one per type.
noChallenge == 0

noSalt == <<>>

noMaxnumber == -1

ChallengeData ==
    [challenge : Digests \cup {noChallenge},
     salt : Salts \cup {noSalt},
     maxnumber : (0..MaxNumber) \cup {noMaxnumber},
     signature : {"sig", undefined}]

NoData == [challenge |-> noChallenge, salt |-> noSalt, maxnumber |-> noMaxnumber,
           signature |-> undefined]

\* index.js: what the request ends with.  part_000: what fetch() and json() give.
Responses_i ==
    [kind : {"end"}, data : ChallengeData]
        \cup {[kind |-> k, data |-> NoData] : k \in {"badjson", "timeout", "error"}}

Responses_p ==
    [kind : {"ok"}, data : ChallengeData]
        \cup {[kind |-> k, data |-> NoData] : k \in {"notok", "throw"}}

\* A token is <<the payload it encodes>>; generateToken's null is the empty tuple.
nullToken == <<>>

payload(data, i, took) ==
    [algorithm |-> "SHA-256", challenge |-> data.challenge, salt |-> data.salt,
     number |-> i,
     signature |-> IF data.signature = undefined THEN null ELSE data.signature,
     took |-> took]

invalidChallenge(data) ==
    data.challenge = noChallenge \/ data.salt = noSalt \/ data.maxnumber = noMaxnumber

\* The for loop of index.js generateToken from candidate i on: the token it
\* resolves with and the hashes it computes.
RECURSIVE solveLoop_mut_i(_, _)
solveLoop_mut_i(data, i) ==
    IF i >= data.maxnumber THEN [token |-> nullToken, hashes |-> 0]
    ELSE IF sha256hex(data.salt, i) = data.challenge
         THEN [token |-> <<payload(data, i, "cloud-proxy")>>, hashes |-> 1]
         ELSE LET rest == solveLoop_mut_i(data, i + 1)
              IN [token |-> rest.token, hashes |-> rest.hashes + 1]

RECURSIVE solveLoop_i(_, _)
solveLoop_i(data, i) ==
    IF i > data.maxnumber THEN [token |-> nullToken, hashes |-> 0]
    ELSE IF sha256hex(data.salt, i) = data.challenge
         THEN [token |-> <<payload(data, i, "cloud-proxy")>>, hashes |-> 1]
         ELSE LET rest == solveLoop_i(data, i + 1)
              IN [token |-> rest.token, hashes |-> rest.hashes + 1]

generateToken_mut_i(r) ==
    IF r.kind # "end" THEN [token |-> nullToken, hashes |-> 0]
    ELSE IF r.data.salt = noSalt \/ r.data.maxnumber = noMaxnumber
         THEN [token |-> nullToken, hashes |-> 0]
         ELSE solveLoop_i(r.data, 0)

generateToken_i(r) ==
    IF r.kind # "end" THEN [token |-> nullToken, hashes |-> 0]
    ELSE IF invalidChallenge(r.data) THEN [token |-> nullToken, hashes |-> 0]
         ELSE solveLoop_i(r.data, 0)

\* The same loop in part_000.
RECURSIVE solveLoop_p(_, _)
solveLoop_p(data, i) ==
    IF i > data.maxnumber THEN [token |-> nullToken, hashes |-> 0]
    ELSE IF sha256hex(data.salt, i) = data.challenge
         THEN [token |-> <<payload(data, i, "cloud")>>, hashes |-> 1]
         ELSE LET rest == solveLoop_p(data, i + 1)
              IN [token |-> rest.token, hashes |-> rest.hashes + 1]

generateToken_p(r) ==
    IF r.kind # "ok" THEN [token |-> nullToken, hashes |-> 0]
    ELSE IF invalidChallenge(r.data) THEN [token |-> nullToken, hashes |-> 0]
         ELSE solveLoop_p(r.data, 0)

\* Whether generateToken can resolve with a token / with null.
CanSolve_p == \E r \in Responses_p : generateToken_p(r).token # nullToken

CanFail_p == \E r \in Responses_p : generateToken_p(r).token = nullToken

\* ----------------------------------------------- part_000, continued

\* cleanup(): the timer, the endpoint's count, the client listeners.
cleanup_mut(s) ==
    /\ keepAliveTimer' = [keepAliveTimer EXCEPT ![s] = FALSE]
    /\ UNCHANGED <<proxyState, released>>
    /\ clientOn' = [clientOn EXCEPT ![s] = FALSE]

cleanup(s) ==
    /\ keepAliveTimer' = [keepAliveTimer EXCEPT ![s] = FALSE]
    /\ proxyState' = activeAdd(proxyState, proxyIdx[s], -1)
    /\ released' = [released EXCEPT ![s] = IF hasState(proxyIdx[s]) THEN @ + 1 ELSE @]
    /\ clientOn' = [clientOn EXCEPT ![s] = FALSE]

\* generateToken resolves and the connection handler goes on: with no token it
\* releases the endpoint and closes the client, with one it sleeps the jitter.
FetchDone_mut_p(s, solved) ==
    /\ pc_p[s] = "fetch"
    /\ IF solved THEN CanSolve_p ELSE CanFail_p
    /\ IF ~solved
       THEN /\ proxyState' = activeAdd(proxyState, proxyIdx[s], -1)
            /\ released' = [released EXCEPT ![s] = IF hasState(proxyIdx[s]) THEN @ + 1 ELSE @]
            /\ pc_p' = [pc_p EXCEPT ![s] = IF did[s].picks < 2 THEN "idle" ELSE "done"]
            /\ UNCHANGED <<wakeAt, clientSocket, closeSent_p>>
       ELSE /\ \E d \in {DIAL_JITTER_MIN, DIAL_JITTER_MAX} :
                 wakeAt' = [wakeAt EXCEPT ![s] = now + d]
            /\ pc_p' = [pc_p EXCEPT ![s] = "jitter"]
            /\ UNCHANGED <<proxyState, released, clientSocket, closeSent_p>>
    /\ UNCHANGED <<proxyList_p, rrCursor, now, proxyIdx, clientOn, upstream_p,
                   upstreamReady_p, keepAliveTimer, fetchGap, dialFailed, did, sends_p>>

FetchDone_p(s, solved) ==
    /\ pc_p[s] = "fetch"
    /\ IF solved THEN CanSolve_p ELSE CanFail_p
    /\ IF ~solved
       THEN /\ proxyState' = activeAdd(proxyState, proxyIdx[s], -1)
            /\ released' = [released EXCEPT ![s] = IF hasState(proxyIdx[s]) THEN @ + 1 ELSE @]
            /\ clientSocket' = closeClient_p(clientSocket, closeSent_p, s, "token").ws
            /\ closeSent_p' = closeClient_p(clientSocket, closeSent_p, s, "token").sent
            /\ pc_p' = [pc_p EXCEPT ![s] = "done"]
            /\ UNCHANGED wakeAt
       ELSE /\ \E d \in {DIAL_JITTER_MIN, DIAL_JITTER_MAX} :
                 wakeAt' = [wakeAt EXCEPT ![s] = now + d]
            /\ pc_p' = [pc_p EXCEPT ![s] = "jitter"]
            /\ UNCHANGED <<proxyState, released, clientSocket, closeSent_p>>
    /\ UNCHANGED <<proxyList_p, rrCursor, now, proxyIdx, clientOn, upstream_p,
                   upstreamReady_p, keepAliveTimer, fetchGap, dialFailed, did, sends_p>>

\* After the jitter: new WebSocket(moomooUrl), and the client listeners go on.
JitterWake(s) ==
    /\ pc_p[s] = "jitter"
    /\ now >= wakeAt[s]
    /\ upstream_p' = [upstream_p EXCEPT ![s] = "CONNECTING"]
    /\ clientOn' = [clientOn EXCEPT ![s] = TRUE]
    /\ pc_p' = [pc_p EXCEPT ![s] = "relay"]
    /\ wakeAt' = [wakeAt EXCEPT ![s] = 0]
    /\ did' = [did EXCEPT ![s].dials = @ + 1]
    /\ UNCHANGED <<proxyList_p, proxyState, rrCursor, now, proxyIdx, clientSocket,
                   upstreamReady_p, keepAliveTimer, released, fetchGap,
                   closeSent_p, dialFailed, sends_p>>

\* A send may throw only in MaxFails connections.
MayFail(s) ==
    \/ sendFailed[s] # "none"
    \/ Cardinality({t \in Sessions : sendFailed[t] # "none"}) < MaxFails

\* A guarded send in direction dir ("up": to the upstream, "down": to the
\* client) that goes through (ok) or throws: what the histories record.
sendResult(s, dir, ok, try) ==
    /\ sendFailed' = [sendFailed EXCEPT ![s] = IF ~ok /\ @ = "none" THEN dir ELSE @]
    /\ fwdAfterFail' = [fwdAfterFail EXCEPT ![s] =
                           @ \/ (ok /\ sendFailed[s] \notin {"none", dir})]
    /\ crashed' = (crashed \/ try = "uncaught")

\* The client sends a message: onClientMessage, when it is attached, sends it
\* on if the upstream is ready and open, and drops it otherwise.
ClientMessage_p(s) ==
    /\ clientSocket[s] \in {"OPEN", "CLOSING"}
    /\ IF clientOn[s] /\ upstreamReady_p[s] /\ readyState(upstream_p[s]) = "OPEN"
       THEN \E ok \in BOOLEAN :
                /\ ok \/ MayFail(s)
                /\ sendResult(s, "up", ok, trySend(ok))
       ELSE UNCHANGED sends_p
    /\ UNCHANGED <<proxyList_p, proxyState, rrCursor, now, pc_p, proxyIdx, clientSocket,
                   clientOn, upstream_p, upstreamReady_p, keepAliveTimer, wakeAt,
                   released, fetchGap, closeSent_p, dialFailed, did>>

\* The client socket closes: onClientClose, when it is attached.
ClientClose_p(s) ==
    /\ clientSocket[s] \in {"OPEN", "CLOSING"}
    /\ clientSocket' = [clientSocket EXCEPT ![s] = "CLOSED"]
    /\ IF clientOn[s]
       THEN /\ cleanup(s)
            /\ upstream_p' = [upstream_p EXCEPT ![s] = closeCall(@)]
       ELSE UNCHANGED <<keepAliveTimer, proxyState, released, clientOn, upstream_p>>
    /\ UNCHANGED <<proxyList_p, rrCursor, now, pc_p, proxyIdx, upstreamReady_p,
                   wakeAt, fetchGap, closeSent_p, dialFailed, did, sends_p>>

\* upstream 'open'.
UpstreamOpen_p(s) ==
    /\ upstream_p[s] = "CONNECTING"
    /\ upstream_p' = [upstream_p EXCEPT ![s] = "OPEN"]
    /\ upstreamReady_p' = [upstreamReady_p EXCEPT ![s] = TRUE]
    /\ keepAliveTimer' = [keepAliveTimer EXCEPT ![s] = TRUE]
    /\ UNCHANGED <<proxyList_p, proxyState, rrCursor, now, pc_p, proxyIdx, clientSocket,
                   clientOn, wakeAt, released, fetchGap, closeSent_p, dialFailed, did,
                   sends_p>>

\* upstream 'message': onUpstreamMessage sends to the client when it is open.
UpstreamMessage_p(s) ==
    /\ upstream_p[s] = "OPEN"
    /\ IF readyState(clientSocket[s]) = "OPEN"
       THEN \E ok \in BOOLEAN :
                /\ ok \/ MayFail(s)
                /\ sendResult(s, "down", ok, trySend(ok))
       ELSE UNCHANGED sends_p
    /\ UNCHANGED <<proxyList_p, proxyState, rrCursor, now, pc_p, proxyIdx, clientSocket,
                   clientOn, upstream_p, upstreamReady_p, keepAliveTimer, wakeAt,
                   released, fetchGap, closeSent_p, dialFailed, did>>

\* The keepalive interval fires: a ping when the upstream is open.
KeepAlive_p(s) ==
    /\ keepAliveTimer[s]
    /\ UNCHANGED vars_p

\* upstream 'error' on an open socket.  The socket's 'close' follows later.
UpstreamError_p(s) ==
    /\ upstream_p[s] = "OPEN"
    /\ upstream_p' = [upstream_p EXCEPT ![s] = "CLOSING"]
    /\ upstreamReady_p' = [upstreamReady_p EXCEPT ![s] = FALSE]
    /\ UNCHANGED <<proxyList_p, proxyState, rrCursor, now, pc_p, proxyIdx, clientSocket,
                   clientOn, keepAliveTimer, wakeAt, released, fetchGap, closeSent_p,
                   dialFailed, did, sends_p>>

\* The upstream's 'close' handler, whatever made the socket close.
onUpstreamClose_p(s) ==
    /\ upstream_p' = [upstream_p EXCEPT ![s] = "CLOSED"]
    /\ upstreamReady_p' = [upstreamReady_p EXCEPT ![s] = FALSE]
    /\ cleanup(s)
    /\ clientSocket' = closeClient_p(clientSocket, closeSent_p, s, "close").ws
    /\ closeSent_p' = closeClient_p(clientSocket, closeSent_p, s, "close").sent
    /\ UNCHANGED <<proxyList_p, rrCursor, now, pc_p, proxyIdx, wakeAt, fetchGap, did,
                   sends_p>>

\* The handshake fails, or ends aborted by upstream.close(): 'error', then
\* 'close' at once.
UpstreamFail_p(s) ==
    /\ upstream_p[s] \in {"CONNECTING", "ABORTING"}
    /\ dialFailed' = [dialFailed EXCEPT ![s] = (upstream_p[s] = "CONNECTING")]
    /\ onUpstreamClose_p(s)

\* upstream 'close': the backend closed, or a close under way completes.
UpstreamClose_p(s) ==
    /\ upstream_p[s] \in {"OPEN", "CLOSING"}
    /\ onUpstreamClose_p(s)
    /\ UNCHANGED dialFailed

\* ------------------------------------------------------------- index.js

\* The close codes an upstream 'close' event may carry.
CloseCodes == (999..1016) \cup {2999, 3000, 3500, 4999, 5000}

\* SpecIndex draws them from two: a normal closure and an abnormal one.
SomeCodes == {1000, 1006}

safeCode_mut(code) ==
    IF (code >= 1000 /\ code <= 1004) \/ (code >= 1007 /\ code <= 1014)
          \/ (code >= 3000 /\ code <= 4999)
    THEN code ELSE 1000

safeCode_mutLow(code) ==
    IF code <= 1003 \/ (code >= 1007 /\ code <= 1014)
          \/ (code >= 3000 /\ code <= 4999)
    THEN code ELSE 1000

safeCode(code) ==
    IF (code >= 1000 /\ code <= 1003) \/ (code >= 1007 /\ code <= 1014)
          \/ (code >= 3000 /\ code <= 4999)
    THEN code ELSE 1000

\* clientWs.close(code, ...): the socket after the call, and the code that went out.
\* why names the call: "region", "token", "error" (upstream 'error'), "close"
\* (upstream 'close').
closeClient(cw, cs, s, why, code) ==
    [ws |-> [cw EXCEPT ![s] = closeCall(@)],
     sent |-> IF cw[s] = "OPEN" THEN [cs EXCEPT ![s] = [why |-> why, code |-> code]]
              ELSE cs]

\* A reason string is a sequence of pieces: a run of `units` UTF-16 code units
\* of one text.  "a" is one byte in UTF-8, "U+00E9" two, "U+20AC" three; the
\* literal reasons of the program are ASCII.
utf8Width(text) ==
    CASE text = "U+00E9" -> 2
      [] text = "U+20AC" -> 3
      [] OTHER -> 1

Literal(text, units) == <<[text |-> text, units |-> units]>>

NoReason == <<>>

RECURSIVE byteLength(_)
byteLength(reason) ==
    IF reason = <<>> THEN 0
    ELSE Head(reason).units * utf8Width(Head(reason).text) + byteLength(Tail(reason))

\* reasonStr.slice(0, k): the first k code units.
RECURSIVE slice(_, _)
slice(reason, k) ==
    IF reason = <<>> \/ k <= 0 THEN <<>>
    ELSE IF Head(reason).units <= k
         THEN <<Head(reason)>> \o slice(Tail(reason), k - Head(reason).units)
         ELSE <<[text |-> Head(reason).text, units |-> k]>>

\* clientWs.close(code, reason) throws when the reason is longer than
\* REASON_MAX bytes.
closeThrows(reason) == byteLength(reason) > REASON_MAX

\* The reason that goes out with closeClient's code.
reasonOf(cw, rs, s, reason) == IF cw[s] = "OPEN" THEN [rs EXCEPT ![s] = reason] ELSE rs

\* The while loop of upstream.on('open'): shift and send until the queue is empty.
RECURSIVE flush_mut(_, _)
flush_mut(queue, sent) ==
    IF queue = <<>> THEN sent
    ELSE flush_mut(SubSeq(queue, 1, Len(queue) - 1), Append(sent, queue[Len(queue)]))

RECURSIVE flush(_, _)
flush(queue, sent) ==
    IF queue = <<>> THEN sent
    ELSE flush(Tail(queue), Append(sent, Head(queue)))

\* The queue the while loop leaves behind: it shifts until length is 0.
drain_mut(queue) == IF queue = <<>> THEN queue ELSE Tail(queue)

RECURSIVE drain(_)
drain(queue) == IF Len(queue) > 0 THEN drain(Tail(queue)) ELSE queue

\* Connecting: accepted and validated, the upstream not yet open.
Connecting_i(s) ==
    \/ pc_i[s] = "token"
    \/ pc_i[s] = "relay" /\ upstream_i[s] = "CONNECTING"

\* The responses SpecIndex draws from: every way to fail, and challenges of one
\* salt with maxnumber 0.
SomeResponses_i ==
    {r \in Responses_i :
        \/ r.kind # "end"
        \/ /\ r.data.signature = undefined
           /\ r.data.salt \in {noSalt, [i \in 0..MaxNumber |-> 1]}
           /\ r.data.maxnumber \in {noMaxnumber, 0}}

NoSolve == [ran |-> FALSE, token |-> nullToken, hashes |-> 0]

ErrorResponse == [kind |-> "error", data |-> NoData]

\* wss.on('connection') up to await generateToken(agent): the region check, the
\* proxy pick, and the /verify request.
Connection_i(s, regionOk) ==
    /\ pc_i[s] = "idle"
    /\ IF ~regionOk
       THEN /\ clientWs' = [clientWs EXCEPT ![s] = closeCall("OPEN")]
            /\ closeSent' = [closeSent EXCEPT ![s] = [why |-> "region", code |-> 1008]]
            /\ reasonSent' = [reasonSent EXCEPT ![s] = Literal("Invalid region", 14)]
            /\ pc_i' = [pc_i EXCEPT ![s] = "done"]
            /\ UNCHANGED <<proxyIndex, proxyUrl>>
       ELSE /\ proxyUrl' = [proxyUrl EXCEPT ![s] = getNextProxy_proxy(proxyList_i, proxyIndex)]
            /\ proxyIndex' = getNextProxy_index(proxyList_i, proxyIndex)
            /\ clientWs' = [clientWs EXCEPT ![s] = "OPEN"]
            /\ pc_i' = [pc_i EXCEPT ![s] = "token"]
            /\ UNCHANGED <<closeSent, reasonSent>>
    /\ UNCHANGED <<proxyList_i, upstream_i, upstreamReady_i, messageQueue,
                   keepAliveInterval, submitted, early, upstreamSent, closedConnecting,
                   upstreamCode, reasonStr, resp>>

\* The /verify request ends with r, generateToken resolves and the connection
\* handler goes on: with no token it closes the client (1011), with one it dials
\* the upstream and attaches every listener.
FetchEnd_i(s, r) ==
    /\ pc_i[s] = "token"
    /\ IF generateToken_i(r).token = nullToken
       THEN /\ clientWs' = closeClient(clientWs, closeSent, s, "token", 1011).ws
            /\ closeSent' = closeClient(clientWs, closeSent, s, "token", 1011).sent
            /\ reasonSent' = reasonOf(clientWs, reasonSent, s,
                                      Literal("Token generation failed", 23))
            /\ pc_i' = [pc_i EXCEPT ![s] = "done"]
            /\ UNCHANGED upstream_i
       ELSE /\ upstream_i' = [upstream_i EXCEPT ![s] = "CONNECTING"]
            /\ pc_i' = [pc_i EXCEPT ![s] = "relay"]
            /\ UNCHANGED <<clientWs, closeSent, reasonSent>>
    /\ UNCHANGED <<proxyList_i, proxyIndex, proxyUrl, upstreamReady_i, messageQueue,
                   keepAliveInterval, submitted, early, upstreamSent, closedConnecting,
                   upstreamCode, reasonStr, resp>>

RECURSIVE SumOver(_, _)
SumOver(f, S) == IF S = {} THEN 0 ELSE LET x == CHOOSE x \in S : TRUE
                                       IN f[x] + SumOver(f, S \ {x})

SubmittedTotal == SumOver(submitted, Sessions)

\* The client sends its next message: clientWs.on('message'), once it is attached.
ClientMessage_i(s) ==
    /\ clientWs[s] \in {"OPEN", "CLOSING"}
    /\ SubmittedTotal < MaxMsgs
    /\ LET m == submitted[s] + 1
       IN /\ submitted' = [submitted EXCEPT ![s] = m]
          /\ early' = [early EXCEPT ![s] = IF Connecting_i(s) THEN @ + 1 ELSE @]
          /\ IF pc_i[s] # "relay"
             THEN UNCHANGED <<upstreamSent, messageQueue>>
             ELSE IF upstreamReady_i[s] /\ readyState(upstream_i[s]) = "OPEN"
                  THEN /\ upstreamSent' = [upstreamSent EXCEPT ![s] = Append(@, m)]
                       /\ UNCHANGED messageQueue
                  ELSE /\ messageQueue' = [messageQueue EXCEPT ![s] = Append(@, m)]
                       /\ UNCHANGED upstreamSent
    /\ UNCHANGED <<proxyList_i, proxyIndex, pc_i, proxyUrl, clientWs, upstream_i,
                   upstreamReady_i, keepAliveInterval, closedConnecting, closeSent,
                   upstreamCode, reasonStr, reasonSent, resp>>

\* The client socket closes: clientWs.on('close'), once it is attached.
ClientClose_i(s) ==
    /\ clientWs[s] \in {"OPEN", "CLOSING"}
    /\ clientWs' = [clientWs EXCEPT ![s] = "CLOSED"]
    /\ closedConnecting' = [closedConnecting EXCEPT ![s] = @ \/ Connecting_i(s)]
    /\ IF pc_i[s] = "relay"
       THEN /\ keepAliveInterval' = [keepAliveInterval EXCEPT ![s] = FALSE]
            /\ upstream_i' = [upstream_i EXCEPT ![s] =
                                 IF readyState(@) = "OPEN" THEN closeCall(@) ELSE @]
       ELSE UNCHANGED <<keepAliveInterval, upstream_i>>
    /\ UNCHANGED <<proxyList_i, proxyIndex, pc_i, proxyUrl, upstreamReady_i, messageQueue,
                   submitted, early, upstreamSent, closeSent, upstreamCode, reasonStr,
                   reasonSent, resp>>

\* upstream 'open': ready, the keepalive armed, the queue flushed.
UpstreamOpen_i(s) ==
    /\ upstream_i[s] = "CONNECTING"
    /\ upstream_i' = [upstream_i EXCEPT ![s] = "OPEN"]
    /\ upstreamReady_i' = [upstreamReady_i EXCEPT ![s] = TRUE]
    /\ keepAliveInterval' = [keepAliveInterval EXCEPT ![s] = TRUE]
    /\ upstreamSent' = [upstreamSent EXCEPT ![s] = flush(messageQueue[s], @)]
    /\ messageQueue' = [messageQueue EXCEPT ![s] = drain(@)]
    /\ UNCHANGED <<proxyList_i, proxyIndex, pc_i, proxyUrl, clientWs, submitted, early,
                   closedConnecting, closeSent, upstreamCode, reasonStr, reasonSent, resp>>

\* upstream 'message': sent on to the client when the client is open.
UpstreamMessage_i(s) ==
    /\ upstream_i[s] = "OPEN"
    /\ UNCHANGED vars_i

\* The keepalive interval fires: a ping when the upstream is open.
KeepAlive_i(s) ==
    /\ keepAliveInterval[s]
    /\ UNCHANGED vars_i

\* The upstream's 'error' handler.
onUpstreamError_i(cw, cs, rs, s) ==
    [ws |-> closeClient(cw, cs, s, "error", 1011).ws,
     sent |-> closeClient(cw, cs, s, "error", 1011).sent,
     reason |-> reasonOf(cw, rs, s, Literal("Upstream error", 14))]

\* The upstream's 'close' handler: the client, when open, is closed with the
\* safe code and the sliced reason; when that throws it is terminated and
\* nothing goes out.
onUpstreamClose_i(cw, cs, rs, s, code, reason) ==
    IF cw[s] = "OPEN" /\ closeThrows(slice(reason, REASON_MAX))
    THEN [ws |-> [cw EXCEPT ![s] = "CLOSING"],
          sent |-> [cs EXCEPT ![s] = [why |-> "terminate", code |-> 0]],
          reason |-> rs]
    ELSE [ws |-> closeClient(cw, cs, s, "close", safeCode(code)).ws,
          sent |-> closeClient(cw, cs, s, "close", safeCode(code)).sent,
          reason |-> reasonOf(cw, rs, s, slice(reason, REASON_MAX))]

\* upstream 'error' on an open socket; its 'close' follows later.
UpstreamError_i(s) ==
    /\ upstream_i[s] = "OPEN"
    /\ upstream_i' = [upstream_i EXCEPT ![s] = "CLOSING"]
    /\ upstreamReady_i' = [upstreamReady_i EXCEPT ![s] = FALSE]
    /\ keepAliveInterval' = [keepAliveInterval EXCEPT ![s] = FALSE]
    /\ clientWs' = onUpstreamError_i(clientWs, closeSent, reasonSent, s).ws
    /\ closeSent' = onUpstreamError_i(clientWs, closeSent, reasonSent, s).sent
    /\ reasonSent' = onUpstreamError_i(clientWs, closeSent, reasonSent, s).reason
    /\ UNCHANGED <<proxyList_i, proxyIndex, pc_i, proxyUrl, messageQueue, submitted,
                   early, upstreamSent, closedConnecting, upstreamCode, reasonStr, resp>>

\* The handshake fails: 'error', then 'close' (1006, no reason) at once.
UpstreamFail_i(s) ==
    /\ upstream_i[s] = "CONNECTING"
    /\ upstream_i' = [upstream_i EXCEPT ![s] = "CLOSED"]
    /\ upstreamCode' = [upstreamCode EXCEPT ![s] = ABNORMAL_CLOSURE]
    /\ upstreamReady_i' = [upstreamReady_i EXCEPT ![s] = FALSE]
    /\ keepAliveInterval' = [keepAliveInterval EXCEPT ![s] = FALSE]
    /\ LET e == onUpstreamError_i(clientWs, closeSent, reasonSent, s)
           c == onUpstreamClose_i(e.ws, e.sent, e.reason, s, ABNORMAL_CLOSURE, NoReason)
       IN /\ clientWs' = c.ws
          /\ closeSent' = c.sent
          /\ reasonSent' = c.reason
    /\ UNCHANGED <<proxyList_i, proxyIndex, pc_i, proxyUrl, messageQueue, submitted,
                   early, upstreamSent, closedConnecting, reasonStr, resp>>

\* upstream 'close' with a code and a reason: the backend closed, or a close
\* under way completes.
UpstreamClose_i(s, code, reason) ==
    /\ upstream_i[s] \in {"OPEN", "CLOSING"}
    /\ upstream_i' = [upstream_i EXCEPT ![s] = "CLOSED"]
    /\ upstreamCode' = [upstreamCode EXCEPT ![s] = code]
    /\ reasonStr' = [reasonStr EXCEPT ![s] = reason]
    /\ upstreamReady_i' = [upstreamReady_i EXCEPT ![s] = FALSE]
    /\ keepAliveInterval' = [keepAliveInterval EXCEPT ![s] = FALSE]
    /\ LET c == onUpstreamClose_i(clientWs, closeSent, reasonSent, s, code, reason)
       IN /\ clientWs' = c.ws
          /\ closeSent' = c.sent
          /\ reasonSent' = c.reason
    /\ UNCHANGED <<proxyList_i, proxyIndex, pc_i, proxyUrl, messageQueue, submitted,
                   early, upstreamSent, closedConnecting, resp>>

\* The reasons an upstream 'close' event is given here: none, short ones, and
\* ones of REASON_MAX units and more, of one-, two- and three-byte characters.
Reasons ==
    {NoReason}
        \cup {Literal(t, n) : t \in {"a", "U+00E9", "U+20AC"},
                              n \in {1, REASON_MAX, REASON_MAX + 1}}
        \cup {Literal("a", REASON_MAX - 1) \o Literal("U+00E9", 1),
              Literal("U+00E9", 1) \o Literal("a", REASON_MAX)}

\* SpecOne: every code without a reason, and every reason with a code of SomeCodes.
CloseEvents ==
    {[code |-> c, reason |-> NoReason] : c \in CloseCodes}
        \cup {[code |-> c, reason |-> r] : c \in SomeCodes, r \in Reasons}

\* ------------------------------------------------------ specifications

FrozenPool ==
    /\ poolList = <<>>
    /\ proxyIndex_pool = 0
    /\ rrCursor_pool = 0
    /\ picks_i = <<>>
    /\ picks_p = <<>>

History_p ==
    /\ closeSent_p = [s \in Sessions |-> [why |-> "none", code |-> noCode]]
    /\ dialFailed = [s \in Sessions |-> FALSE]
    /\ did = [s \in Sessions |-> [picks |-> 0, fetches |-> 0, dials |-> 0]]
    /\ sendFailed = [s \in Sessions |-> "none"]
    /\ fwdAfterFail = [s \in Sessions |-> FALSE]
    /\ crashed = FALSE

FrozenPart ==
    /\ proxyList_p = <<>>
    /\ proxyState = <<>>
    /\ rrCursor = 0
    /\ now = StartNow
    /\ pc_p = [s \in Sessions |-> "idle"]
    /\ proxyIdx = [s \in Sessions |-> NoProxy]
    /\ clientSocket = [s \in Sessions |-> "NONE"]
    /\ clientOn = [s \in Sessions |-> FALSE]
    /\ upstream_p = [s \in Sessions |-> "NONE"]
    /\ upstreamReady_p = [s \in Sessions |-> FALSE]
    /\ keepAliveTimer = [s \in Sessions |-> FALSE]
    /\ wakeAt = [s \in Sessions |-> 0]
    /\ released = [s \in Sessions |-> 0]
    /\ fetchGap = <<>>
    /\ History_p

SessionInit_i ==
    /\ proxyIndex = 0
    /\ pc_i = [s \in Sessions |-> "idle"]
    /\ proxyUrl = [s \in Sessions |-> nullProxy]
    /\ clientWs = [s \in Sessions |-> "NONE"]
    /\ upstream_i = [s \in Sessions |-> "NONE"]
    /\ upstreamReady_i = [s \in Sessions |-> FALSE]
    /\ messageQueue = [s \in Sessions |-> <<>>]
    /\ keepAliveInterval = [s \in Sessions |-> FALSE]
    /\ submitted = [s \in Sessions |-> 0]
    /\ early = [s \in Sessions |-> 0]
    /\ upstreamSent = [s \in Sessions |-> <<>>]
    /\ closedConnecting = [s \in Sessions |-> FALSE]
    /\ closeSent = [s \in Sessions |-> [why |-> "none", code |-> 0]]
    /\ upstreamCode = [s \in Sessions |-> 0]
    /\ reasonStr = [s \in Sessions |-> NoReason]
    /\ reasonSent = [s \in Sessions |-> NoReason]
    /\ lastSolve = NoSolve

FrozenIndex ==
    /\ proxyList_i = <<>>
    /\ resp = ErrorResponse
    /\ SessionInit_i

InitPool ==
    /\ \E n \in 0..MaxPoolProxies : poolList = loadProxies(n)
    /\ proxyIndex_pool = 0
    /\ rrCursor_pool = 0
    /\ picks_i = <<>>
    /\ picks_p = <<>>
    /\ FrozenPart
    /\ FrozenIndex

NextPool ==
    \/ CallGetNextProxy /\ UNCHANGED <<vars_p, vars_i>>
    \/ CallPickProxyIndex /\ UNCHANGED <<vars_p, vars_i>>

SpecPool == InitPool /\ [][NextPool]_vars

InitPart ==
    /\ \E n \in 0..MaxProxies : proxyList_p = loadProxies(n)
    /\ proxyState = [i \in ProxyIdxs |-> [active |-> 0, lastTokenAt |-> 0]]
    /\ rrCursor = 0
    /\ now = StartNow
    /\ pc_p = [s \in Sessions |-> "idle"]
    /\ proxyIdx = [s \in Sessions |-> NoProxy]
    /\ clientSocket = [s \in Sessions |-> "NONE"]
    /\ clientOn = [s \in Sessions |-> FALSE]
    /\ upstream_p = [s \in Sessions |-> "NONE"]
    /\ upstreamReady_p = [s \in Sessions |-> FALSE]
    /\ keepAliveTimer = [s \in Sessions |-> FALSE]
    /\ wakeAt = [s \in Sessions |-> 0]
    /\ released = [s \in Sessions |-> 0]
    /\ fetchGap = [i \in ProxyIdxs |-> -1]
    /\ History_p
    /\ FrozenPool
    /\ FrozenIndex

NextPart ==
    \/ Tick /\ UNCHANGED <<vars_pool, vars_i>>
    \/ \E s \in Relayed, regionOk \in BOOLEAN : Connection_p(s, regionOk) /\ UNCHANGED <<vars_pool, vars_i>>
    \/ \E s \in Relayed : ThrottleWake(s) /\ UNCHANGED <<vars_pool, vars_i>>
    \/ \E s \in Relayed, solved \in BOOLEAN : FetchDone_p(s, solved) /\ UNCHANGED <<vars_pool, vars_i>>
    \/ \E s \in Relayed : JitterWake(s) /\ UNCHANGED <<vars_pool, vars_i>>
    \/ \E s \in Relayed : ClientMessage_p(s) /\ UNCHANGED <<vars_pool, vars_i>>
    \/ \E s \in Relayed : ClientClose_p(s) /\ UNCHANGED <<vars_pool, vars_i>>
    \/ \E s \in Relayed : UpstreamOpen_p(s) /\ UNCHANGED <<vars_pool, vars_i>>
    \/ \E s \in Relayed : UpstreamMessage_p(s) /\ UNCHANGED <<vars_pool, vars_i>>
    \/ \E s \in Relayed : KeepAlive_p(s) /\ UNCHANGED <<vars_pool, vars_i>>
    \/ \E s \in Relayed : UpstreamError_p(s) /\ UNCHANGED <<vars_pool, vars_i>>
    \/ \E s \in Relayed : UpstreamFail_p(s) /\ UNCHANGED <<vars_pool, vars_i>>
    \/ \E s \in Relayed : UpstreamClose_p(s) /\ UNCHANGED <<vars_pool, vars_i>>

SpecPart == InitPart /\ [][NextPart]_vars

\* The token fetches of every connection of Sessions, up to the fetch's end.
NextThrottle ==
    \/ Tick /\ UNCHANGED <<vars_pool, vars_i>>
    \/ \E s \in Sessions : Connection_p(s, TRUE) /\ UNCHANGED <<vars_pool, vars_i>>
    \/ \E s \in Sessions : ThrottleWake(s) /\ UNCHANGED <<vars_pool, vars_i>>
    \/ \E s \in Sessions, solved \in BOOLEAN : FetchDone_p(s, solved) /\ UNCHANGED <<vars_pool, vars_i>>

SpecThrottle == InitPart /\ [][NextThrottle]_vars

InitIndex ==
    /\ \E n \in 0..MaxProxies : proxyList_i = loadProxies(n)
    /\ resp = ErrorResponse
    /\ SessionInit_i
    /\ FrozenPart
    /\ FrozenPool

Others_i == <<vars_p, vars_pool, proxyList_i, lastSolve>>

NextIndex ==
    \/ \E s \in Relayed, regionOk \in BOOLEAN : Connection_i(s, regionOk) /\ UNCHANGED Others_i
    \/ \E s \in Relayed, r \in SomeResponses_i : FetchEnd_i(s, r) /\ UNCHANGED Others_i
    \/ \E s \in Relayed : ClientMessage_i(s) /\ UNCHANGED Others_i
    \/ \E s \in Relayed : ClientClose_i(s) /\ UNCHANGED Others_i
    \/ \E s \in Relayed : UpstreamOpen_i(s) /\ UNCHANGED Others_i
    \/ \E s \in Relayed : UpstreamMessage_i(s) /\ UNCHANGED <<vars_p, vars_pool>>
    \/ \E s \in Relayed : KeepAlive_i(s) /\ UNCHANGED <<vars_p, vars_pool>>
    \/ \E s \in Relayed : UpstreamError_i(s) /\ UNCHANGED Others_i
    \/ \E s \in Relayed : UpstreamFail_i(s) /\ UNCHANGED Others_i
    \/ \E s \in Relayed, code \in SomeCodes : UpstreamClose_i(s, code, NoReason) /\ UNCHANGED Others_i

SpecIndex == InitIndex /\ [][NextIndex]_vars

\* What is bound to happen in index.js: the /verify request ends (it has a
\* timeout), a handshake ends in 'open' or in failure, and a close under way
\* completes, on the upstream and on the client.  The client and the backend
\* are not bound to close or to send anything of their own accord.
Fairness_i ==
    \A s \in Relayed :
        /\ WF_vars(\E r \in SomeResponses_i : FetchEnd_i(s, r) /\ UNCHANGED Others_i)
        /\ WF_vars((UpstreamOpen_i(s) \/ UpstreamFail_i(s)) /\ UNCHANGED Others_i)
        /\ WF_vars(upstream_i[s] = "CLOSING"
                     /\ (\E code \in SomeCodes : UpstreamClose_i(s, code, NoReason))
                     /\ UNCHANGED Others_i)
        /\ WF_vars(clientWs[s] = "CLOSING" /\ ClientClose_i(s) /\ UNCHANGED Others_i)

SpecIndexFair == InitIndex /\ [][NextIndex]_vars /\ Fairness_i

\* One connection of index.js, over every response of /verify and every close
\* code of the upstream.
InitOne ==
    /\ proxyList_i = loadProxies(1)
    /\ resp \in Responses_i
    /\ SessionInit_i
    /\ FrozenPart
    /\ FrozenPool

Solved(g) == [ran |-> TRUE, token |-> g.token, hashes |-> g.hashes]

Others_one == <<vars_p, vars_pool, proxyList_i>>

NextOne ==
    \/ \E regionOk \in BOOLEAN : Connection_i("c1", regionOk) /\ UNCHANGED Others_i
    \/ FetchEnd_i("c1", resp) /\ lastSolve' = Solved(generateToken_i(resp))
                              /\ UNCHANGED Others_one
    \/ ClientClose_i("c1") /\ UNCHANGED Others_i
    \/ UpstreamOpen_i("c1") /\ UNCHANGED Others_i
    \/ UpstreamError_i("c1") /\ UNCHANGED Others_i
    \/ UpstreamFail_i("c1") /\ UNCHANGED Others_i
    \/ \E e \in CloseEvents : UpstreamClose_i("c1", e.code, e.reason) /\ UNCHANGED Others_i

SpecOne == InitOne /\ [][NextOne]_vars

\* ------------------------------------------------------------- claims

\* C1: a connection that acquired an endpoint decrements the endpoint's
\* active count once in total, whatever teardown events fire and in whatever
\* order: a second run of the teardown path does not decrement again.
C1_ReleasedOnce == \A s \in Sessions : released[s] <= 1

\* C2: in every reachable state every endpoint's active count is >= 0.
C2_ActiveNonNegative == \A i \in DOMAIN proxyState : proxyState[i].active >= 0

\* C3: two fetches through the same endpoint are never issued less than
\* TOKEN_RATE_WINDOW_MS apart, also when their callers entered the throttle
\* together.
C3_FetchesSpaced ==
    \A i \in DOMAIN fetchGap : fetchGap[i] = -1 \/ fetchGap[i] >= TOKEN_RATE_WINDOW_MS

\* C4: every message the client sends while the session is Connecting is
\* appended to the queue, none is dropped, and once the upstream is open every
\* one of them has been given to the upstream.
C4_ConnectingQueued ==
    \A s \in Sessions :
        /\ Connecting_i(s) => messageQueue[s] = [k \in 1..early[s] |-> k]
        /\ upstream_i[s] = "OPEN" =>
               \A k \in 1..early[s] : \E i \in DOMAIN upstreamSent[s] : upstreamSent[s][i] = k

\* C5: the messages given to the upstream are in the order the client sent
\* them: the queue is flushed first in, first out, and all of it before any
\* message that arrives after readiness.
C5_UpstreamOrder ==
    \A s \in Sessions :
        \A i, j \in DOMAIN upstreamSent[s] :
            i < j => upstreamSent[s][i] < upstreamSent[s][j]

\* Two messages were queued during the handshake and flushed, a third was
\* forwarded live.
C5_Witness == \E s \in Sessions : early[s] = 2 /\ upstreamSent[s] = <<1, 2, 3>>

\* C6: when the client closes while its session is Connecting, the session
\* does not enter Relaying and no open upstream stays paired with the closed
\* client.
C6_NoOrphanUpstream ==
    \A s \in Sessions :
        closedConnecting[s] => ~upstreamReady_i[s] /\ upstream_i[s] # "OPEN"

Range(f) == {f[i] : i \in DOMAIN f}

RotatesOver(picks, list) ==
    LET N == Len(list)
    IN /\ \A i \in 1..(Len(picks) - N + 1) : {picks[j] : j \in i..(i + N - 1)} = Range(list)
       /\ \A i \in 1..(Len(picks) - N) : picks[i + N] = picks[i]

\* C8: over a list of N >= 1 endpoints, any N consecutive selections, from any
\* point of the rotation, return each endpoint once, and the selection after
\* them is the first of them again.
C8_RoundRobin ==
    Len(poolList) >= 1 => RotatesOver(picks_p, poolList) /\ RotatesOver(picks_i, poolList)

\* Three endpoints, and both selectors have gone round more than once.
C8_Witness == Len(poolList) = 3 /\ Len(picks_p) >= 5 /\ Len(picks_i) >= 5

Matches(data) ==
    {i \in 0..data.maxnumber : sha256hex(data.salt, i) = data.challenge}

Least(S) == CHOOSE x \in S : \A y \in S : x <= y

FirstMatchWins(data, g) ==
    IF Matches(data) = {}
    THEN g.token = nullToken /\ g.hashes = data.maxnumber + 1
    ELSE /\ g.token # nullToken
         /\ g.token[1].number = Least(Matches(data))
         /\ g.token[1].number <= data.maxnumber
         /\ g.hashes = g.token[1].number + 1

\* C9: for a challenge with bound M, generateToken tries i = 0, 1, ... in
\* ascending order and resolves with the token of the least i in 0..M whose
\* hash of salt + i is the challenge, never with a number above M, and with
\* no token when no i in 0..M matches.  The loop of part_000 does the same.
C9_FirstMatch ==
    lastSolve.ran /\ resp.kind = "end" /\ ~invalidChallenge(resp.data) =>
        /\ FirstMatchWins(resp.data, lastSolve)
        /\ FirstMatchWins(resp.data, generateToken_p([kind |-> "ok", data |-> resp.data]))

\* Candidates 1 and 2 both match, and the token carries 1.
C9_Witness ==
    /\ lastSolve.ran /\ resp.kind = "end" /\ ~invalidChallenge(resp.data)
    /\ Matches(resp.data) = {1, 2}
    /\ lastSolve.token # nullToken
    /\ lastSolve.token[1].number = 1

\* C10: when challenge, salt or maxnumber is missing from the response,
\* generateToken resolves with no token and computes no hash, and the session
\* is aborted: the client is closed and no upstream is dialled.
C10_InvalidChallenge ==
    lastSolve.ran /\ resp.kind = "end" /\ invalidChallenge(resp.data) =>
        /\ lastSolve.token = nullToken
        /\ lastSolve.hashes = 0
        /\ generateToken_p([kind |-> "ok", data |-> resp.data])
               = [token |-> nullToken, hashes |-> 0]
        /\ pc_i["c1"] = "done"
        /\ upstream_i["c1"] = "NONE"
        /\ clientWs["c1"] \in {"CLOSING", "CLOSED"}

\* Only the challenge is missing, and the connection was closed for the token.
C10_Witness ==
    /\ lastSolve.ran /\ resp.kind = "end"
    /\ resp.data.challenge = noChallenge
    /\ resp.data.salt # noSalt
    /\ resp.data.maxnumber = MaxNumber
    /\ closeSent["c1"] = [why |-> "token", code |-> 1011]

\* A connection rejected for its region: nothing of a session exists for it.
NoSession_p(s) ==
    /\ did[s] = [picks |-> 0, fetches |-> 0, dials |-> 0]
    /\ proxyIdx[s] = NoProxy
    /\ upstream_p[s] = "NONE"
    /\ released[s] = 0

NoSession_i(s) ==
    /\ pc_i[s] = "done"
    /\ proxyUrl[s] = nullProxy
    /\ upstream_i[s] = "NONE"
    /\ messageQueue[s] = <<>>

\* The rejection itself leaves the selector, the counters and the timestamps alone.
RejectionChangesNothing_p ==
    [][\A s \in Sessions :
          closeSent_p[s].why = "none" /\ closeSent_p'[s].why = "region" =>
              UNCHANGED <<rrCursor, proxyState, fetchGap, upstream_p, did>>]_vars

RejectionChangesNothing_i ==
    [][\A s \in Sessions :
          closeSent[s].why = "none" /\ closeSent'[s].why = "region" =>
              UNCHANGED <<proxyIndex, proxyUrl, upstream_i>>]_vars

\* What part_000 does on a bad region: no session (and no close code).
RegionRejected_p ==
    \A s \in Sessions : closeSent_p[s].why = "region" => NoSession_p(s)

\* What index.js does on a bad region: close code 1008, and no session.
RegionRejected_i ==
    \A s \in Sessions :
        closeSent[s].why = "region" =>
            /\ closeSent[s].code = 1008
            /\ NoSession_i(s)
            /\ \A t \in Sessions :
                   closeSent[t].why \in {"token", "error"} => closeSent[t].code # 1008

\* C11: a connection whose region is absent or invalid is closed at once with
\* a close code that tells the rejection from the other closes, and no session
\* exists for it: no endpoint picked, no counter or timestamp changed, no
\* fetch, no dial.
C11_RegionRejected ==
    \A s \in Sessions :
        closeSent_p[s].why = "region" =>
            /\ NoSession_p(s)
            /\ \A t \in Sessions :
                   closeSent_p[t].why \in {"token", "close"} =>
                       closeSent_p[t].code # closeSent_p[s].code

\* The connection's token generation failed / its dial failed.
TokenFailed_p(s) == pc_p[s] = "done" /\ did[s].fetches = 1

DialFailed_p(s) == dialFailed[s]

\* C12: when a session that acquired an endpoint aborts because its token
\* generation failed or because its dial failed after a solved challenge, the
\* client connection is closed, the endpoint's active count has been
\* decremented once, and nothing of the session stays alive.
C12_AbortReleasesOnce ==
    \A s \in Sessions :
        hasState(proxyIdx[s]) =>
            /\ TokenFailed_p(s) =>
                   /\ released[s] = 1
                   /\ clientSocket[s] \in {"CLOSING", "CLOSED"}
                   /\ upstream_p[s] = "NONE"
            /\ DialFailed_p(s) =>
                   /\ released[s] = 1
                   /\ clientSocket[s] \in {"CLOSING", "CLOSED"}
                   /\ upstream_p[s] = "CLOSED"
                   /\ ~upstreamReady_p[s]
                   /\ ~keepAliveTimer[s]

\* One session's token failed and another's dial failed, each on an endpoint.
C12_Witness ==
    \E s, t \in Sessions :
        /\ hasState(proxyIdx[s]) /\ TokenFailed_p(s)
        /\ hasState(proxyIdx[t]) /\ DialFailed_p(t) /\ released[t] = 1

\* C13: a client message that arrives after the upstream has closed is
\* dropped: the queue does not grow once the upstream has closed.
C13_NoQueueAfterClose ==
    [][\A s \in Sessions :
          upstream_i[s] = "CLOSED" => Len(messageQueue'[s]) <= Len(messageQueue[s])]_vars

\* What index.js does: the code and reason of a region, a token and an upstream
\* failure differ pairwise.
FailureDistinguishable_i ==
    \A s, t \in Sessions :
        /\ closeSent[s].why \in {"region", "token", "error"}
        /\ closeSent[t].why \in {"region", "token", "error"}
        /\ closeSent[s].why # closeSent[t].why
        => <<closeSent[s].code, reasonSent[s]>> # <<closeSent[t].code, reasonSent[t]>>

\* C14: the close code that closes the client of a failed session tells the
\* failure category: the closes for a bad region, for a failed token and for a
\* failed or closed upstream differ pairwise.
C14_FailureDistinguishable ==
    \A s, t \in Sessions :
        /\ closeSent_p[s].why \in {"region", "token", "close"}
        /\ closeSent_p[t].why \in {"region", "token", "close"}
        /\ closeSent_p[s].why # closeSent_p[t].why
        => closeSent_p[s].code # closeSent_p[t].code

\* The connection was accepted: its region passed the check.
Accepted_p(s) == did[s].picks > 0

\* C15: with an empty endpoint list the selector returns none and the
\* connection goes on as a direct one: it is not rejected, it waits for no
\* throttle, and no endpoint count is incremented or decremented for it.
C15_DirectFallback ==
    /\ getNextProxy_proxy(loadProxies(0), 0) = nullProxy
    /\ getNextProxy_index(loadProxies(0), 0) = 0
    /\ Len(proxyList_p) = 0 =>
           /\ proxyState = <<>>
           /\ rrCursor = 0
           /\ \A s \in Sessions :
                  /\ pc_p[s] # "throttle"
                  /\ released[s] = 0
                  /\ Accepted_p(s) =>
                         /\ proxyIdx[s] = NoProxy
                         /\ did[s].fetches = 1
                         /\ closeSent_p[s].why # "region"

\* No endpoint is configured and a session relays over a direct upstream.
C15_Witness ==
    /\ Len(proxyList_p) = 0
    /\ \E s \in Sessions :
           Accepted_p(s) /\ upstream_p[s] = "OPEN" /\ clientSocket[s] = "OPEN"

\* C16: when an upstream close is propagated to the client, the reason that
\* goes out is at most REASON_MAX bytes long, whatever the characters of the
\* upstream's reason, and an upstream reason longer than REASON_MAX bytes goes
\* out cut to REASON_MAX bytes exactly.
C16_ReasonTruncated ==
    \A s \in Sessions :
        closeSent[s].why \in {"close", "terminate"} =>
            /\ byteLength(reasonSent[s]) <= REASON_MAX
            /\ byteLength(reasonStr[s]) > REASON_MAX =>
                   /\ closeSent[s].why = "close"
                   /\ byteLength(reasonSent[s]) = REASON_MAX

\* What the code does: the reason is cut to REASON_MAX UTF-16 code units; it
\* goes out when that is at most REASON_MAX bytes, else the client is terminated.
ReasonSliced_i ==
    \A s \in Sessions :
        /\ closeSent[s].why = "close" =>
               /\ reasonSent[s] = slice(reasonStr[s], REASON_MAX)
               /\ byteLength(reasonSent[s]) <= REASON_MAX
        /\ closeSent[s].why = "terminate" =>
               byteLength(slice(reasonStr[s], REASON_MAX)) > REASON_MAX

\* One side of the session has closed or errored.
TornDown_i(s) == clientWs[s] = "CLOSED" \/ upstream_i[s] \in {"CLOSING", "CLOSED"}

\* The session is Closed: both sockets closed (or no upstream ever dialled and
\* none to come), the keepalive stopped.
Closed_i(s) ==
    /\ clientWs[s] = "CLOSED"
    /\ upstream_i[s] = "CLOSED" \/ (upstream_i[s] = "NONE" /\ pc_i[s] = "done")
    /\ ~keepAliveInterval[s]

\* C17: once either side of a session has closed or errored, in any state,
\* the session eventually is Closed: the client and the upstream are both
\* closed and the keepalive timer is stopped.
C17_EventuallyClosed == \A s \in Relayed : TornDown_i(s) ~> Closed_i(s)

\* C18: the keepalive timer is armed only while the upstream has opened and
\* not yet closed, and once the client has closed it is stopped
\* and never armed again: no timer is armed for a session whose client has
\* closed.
C18_TimerStopped ==
    \A s \in Sessions :
        keepAliveInterval[s] =>
            upstream_i[s] \in {"OPEN", "CLOSING"} /\ clientWs[s] # "CLOSED"

\* What the code does keep: a timer is armed only while the upstream is open
\* or closing, so a ping (guarded by readyState OPEN) goes to an open upstream.
TimerOnlyWhileUpstream_i ==
    \A s \in Sessions : keepAliveInterval[s] => upstream_i[s] \in {"OPEN", "CLOSING"}

\* index.js: proxyIndex has advanced once per accepted connection, and an
\* upstream exists only for a connection that went past its token.
OnePick_i ==
    /\ Len(proxyList_i) > 0 =>
           proxyIndex = Cardinality({s \in Sessions :
                                        pc_i[s] # "idle" /\ closeSent[s].why # "region"})
    /\ \A s \in Sessions : upstream_i[s] # "NONE" => pc_i[s] = "relay"

\* C19: a connection picks at most one endpoint, issues at most one challenge
\* fetch and dials at most one upstream; it dials only after its challenge
\* was solved, and a failed challenge or dial ends it with no other endpoint
\* picked.
C19_NoRetry ==
    \A s \in Sessions :
        /\ did[s].picks <= 1
        /\ did[s].fetches <= did[s].picks
        /\ did[s].dials <= did[s].fetches
        /\ did[s].dials = 1 => pc_p[s] = "relay"
        /\ TokenFailed_p(s) => did[s] = [picks |-> 1, fetches |-> 1, dials |-> 0]
        /\ DialFailed_p(s) => did[s] = [picks |-> 1, fetches |-> 1, dials |-> 1]

\* One connection ended on a failed token and one on a failed dial.
C19_Witness ==
    \E s, t \in Sessions :
        /\ TokenFailed_p(s) /\ did[s].picks = 1 /\ clientSocket[s] = "CLOSED"
        /\ DialFailed_p(t) /\ did[t].dials = 1 /\ clientSocket[t] = "CLOSED"

\* Everything of the part_000 server but the histories of the sends.
served_p == <<proxyList_p, proxyState, rrCursor, now, pc_p, proxyIdx, clientSocket,
              clientOn, upstream_p, upstreamReady_p, keepAliveTimer, wakeAt,
              released, fetchGap, closeSent_p, dialFailed, did>>

Sendable == (1000..1003) \cup (1007..1014) \cup (3000..4999)

\* C21: whatever code the upstream closes with, codes below 1000, in
\* 1016..2999 and from 5000 up included, the code that goes out to the client
\* is in Sendable, and an upstream code outside Sendable goes out as 1000.
C21_CodeSendable ==
    \A s \in Sessions :
        closeSent[s].why = "close" =>
            /\ closeSent[s].code \in Sendable
            /\ upstreamCode[s] \notin Sendable => closeSent[s].code = 1000

\* The upstream closed with 999, below every listed range, and the open client
\* was closed with 1000.
C21_Witness ==
    \E s \in Sessions :
        closeSent[s] = [why |-> "close", code |-> 1000] /\ upstreamCode[s] = 999

\* C22: whenever a session is marked ready and its upstream is open, its
\* queue is empty: between two handlers no queued message waits while live
\* messages are forwarded directly.
C22_QueueEmptyWhenReady ==
    \A s \in Sessions :
        upstreamReady_i[s] /\ readyState(upstream_i[s]) = "OPEN" => messageQueue[s] = <<>>

\* Two messages were queued during the handshake; the upstream opened and the
\* session is ready with both flushed and the queue empty.
C22_Witness ==
    \E s \in Sessions :
        /\ upstreamReady_i[s] /\ upstream_i[s] = "OPEN"
        /\ early[s] = 2 /\ upstreamSent[s] = <<1, 2>> /\ messageQueue[s] = <<>>

====
